---- MODULE Spec2Model ----
(***************************************************************************)
(* A model of the chunked, multi-threaded measurement aggregator           *)
(* (src/src/main.rs) and of its fill-without-discard buffer                *)
(* (src/src/buffer.rs).                                                    *)
(*                                                                         *)
(* Bytes are their ASCII codes.  An f32 is the integer number of units of  *)
(* 2^-27 it is worth: every f32 of magnitude in [2^-4, 8) is such an       *)
(* integer, and so is every sum of two of them rounded to 24 significant   *)
(* bits, so F32Add below is f32 addition (round to nearest, ties to even)  *)
(* exactly, inside that window.                                            *)
(***************************************************************************)
EXTENDS Integers, Sequences, FiniteSets, TLC

\* ---------------------------------------------------------------- bounds
\* Largest number of records of an input file.
MaxLines == 3
\* Largest number of worker threads (num_cpus::get()).
MaxWorkers == 2
\* Largest worker count and file length the chunk planner is tried on alone.
MaxChunks == 6
MaxTotalLen == 20
\* Largest number of records behind a table of the merge algebra.
MaxOperandLines == 2
\* Capacity of a worker's buffer.  The program's DEFAULT_BUF_SIZE is 8192;
\* the model scales it down to hold the longest record of the modelled files
\* and one byte more: a half of a three-line file fits in it or not, depending
\* on the lines.
BufCapacity == 9
\* Largest capacity of a Buffer driven on its own.
MaxAloneCapacity == 3
\* Largest number of records of an input file of the runs checked for
\* termination.
MaxLiveLines == 2
\* The value strings parse_measurement is tried on alone: the largest whole
\* part (the f32 window of the model ends at 8.0) and the largest number of
\* zeros written before it.
MaxWholeValue == 6
MaxLeadingZeros == 1

\* ----------------------------------------------------------------- bytes
NL == 10
SEMI == 59
MINUS == 45
DOT == 46
ZERO == 48
LBRACE == 123
RBRACE == 125
EQUALS == 61
SLASH == 47
COMMA == 44
SPACE == 32

Min(a, b) == IF a <= b THEN a ELSE b
Max(a, b) == IF a >= b THEN a ELSE b
Abs(a) == IF a < 0 THEN 0 - a ELSE a

\* The half-open slice s[a..b) of a 0-indexed byte slice.
Slice(s, a, b) == SubSeq(s, a + 1, b)

\* ------------------------------------------------------------------- f32
\* One unit is 2^-27; 1.0 is 2^27 units.
F32_ONE == 134217728
\* 2^24: an f32 has 24 significant bits.
F32_MANT == 16777216
\* The window of the model: magnitudes below 8.0 (2^30 units).
F32_WINDOW == 1073741824
\* A finite f32 outside the window (only malformed digits produce one).
F32_BIG == 2147483646
INFINITY == 2147483647
NEG_INFINITY == 0 - 2147483647

RECURSIVE UlpOf(_, _)
\* The spacing u (a power of two) of the f32s around the magnitude num/den.
UlpOf(q, u) == IF q \div u < F32_MANT THEN u ELSE UlpOf(q, 2 * u)

\* num/den (num >= 0, den > 0) rounded to a multiple of u, ties to even.
RoundToEven(num, den, u) ==
    LET d == den * u
        t == num \div d
        r == num % d
    IN  IF 2 * r > d \/ (2 * r = d /\ t % 2 = 1) THEN (t + 1) * u ELSE t * u

\* The f32 nearest to the integer n of units.
F32Round(n) ==
    LET m == Abs(n)
        v == RoundToEven(m, 1, UlpOf(m, 1))
    IN  IF n < 0 THEN 0 - v ELSE v

IsBig(a) == Abs(a) >= F32_WINDOW

\* a + b in f32.
F32Add(a, b) ==
    IF IsBig(a) THEN a
    ELSE IF IsBig(b) THEN b
    ELSE IF Abs(a + b) >= F32_WINDOW
         THEN (IF a + b < 0 THEN 0 - F32_BIG ELSE F32_BIG)
         ELSE F32Round(a + b)

\* f32::max and f32::min (no NaN arises: nothing divides by zero).
F32Max(a, b) == IF a >= b THEN a ELSE b
F32Min(a, b) == IF a <= b THEN a ELSE b

\* a / d in f32, for a count d >= 1 (exactly an f32).  The quotient of a small
\* sum has an ulp below one unit, so the result is num/den units, den a power
\* of two.
RECURSIVE DivScale(_, _, _)
DivScale(m, d, s) ==
    IF m = 0 \/ s >= 256 \/ (m * s) \div d >= F32_MANT \div 2 THEN s
    ELSE DivScale(m, d, 2 * s)

F32Div(a, d) ==
    IF IsBig(a) THEN [num |-> a, den |-> 1]
    ELSE LET m == Abs(a)
             s == DivScale(m, d, 1)
             v == RoundToEven(m * s, d, UlpOf((m * s) \div d, 1))
         IN  [num |-> IF a < 0 THEN 0 - v ELSE v, den |-> s]

\* ------------------------------------------------------------ formatting
RECURSIVE DecimalDigits(_)
\* The decimal digits of a natural number, as bytes.
DecimalDigits(n) ==
    IF n < 10 THEN <<ZERO + n>> ELSE Append(DecimalDigits(n \div 10), ZERO + (n % 10))

\* "{:.1}" of the f32 num/den units: the exact value rounded to one decimal,
\* ties to even, with the sign of the value.
FormatF32(num, den) ==
    IF num = INFINITY THEN <<105, 110, 102>>
    ELSE IF num = NEG_INFINITY THEN <<MINUS, 105, 110, 102>>
    ELSE IF IsBig(num) THEN (IF num < 0 THEN <<MINUS, 63>> ELSE <<63>>)
    ELSE LET m == Abs(num)
             sign == IF num < 0 THEN <<MINUS>> ELSE <<>>
             D == den * F32_ONE
             tenths ==
                 IF den > 4 THEN 0
                 ELSE LET whole == m \div D
                          r == m % D
                          t == (r * 10) \div D
                          r2 == (r * 10) % D
                          up == 2 * r2 > D \/ (2 * r2 = D /\ t % 2 = 1)
                      IN  whole * 10 + t + (IF up THEN 1 ELSE 0)
         IN  sign \o DecimalDigits(tenths \div 10) \o <<DOT, ZERO + (tenths % 10)>>

\* --------------------------------------------------------------- parsing
\* byte - b'1' (mutant).
byte_ascii_digit_from_one(byte) == (byte - (ZERO + 1)) % 256

\* byte - b'0' on u8: wraps in a release build, panics in a debug build
\* (MeasurementPanics) when byte < b'0'.
byte_ascii_digit(byte) == (byte - ZERO) % 256

RECURSIVE WholeOf(_, _, _)
\* The loop over whole_bytes.iter().rev(): whole += digit * pow; pow *= 10.
\* k bytes of wb are still to do; the result is the integer value, capped at
\* 16 (past the window of the f32 model).
WholeOf(wb, k, pow) ==
    IF k = 0 THEN 0
    ELSE LET d == byte_ascii_digit(wb[k])
         IN  IF d # 0 /\ pow > 10 THEN 16
             ELSE Min(16, d * pow + WholeOf(wb, k - 1, IF pow > 10 THEN pow ELSE pow * 10))

\* The bytes parse_measurement hands to byte_ascii_digit.
DigitBytes(mb) ==
    LET wb0 == Slice(mb, 0, Len(mb) - 2)
        wb == IF Len(wb0) > 0 /\ wb0[1] = MINUS THEN Tail(wb0) ELSE wb0
    IN  {wb[k] : k \in 1..Len(wb)} \cup {mb[Len(mb)]}

\* parse_measurement panics: the slice bound len - 2 underflows (any build),
\* or a digit subtraction underflows (debug build).
MeasurementPanics(mb, dbg) ==
    \/ Len(mb) < 2
    \/ dbg /\ \E b \in DigitBytes(mb) : b < ZERO

\* parse_measurement(measurement_bytes): whole + fractional / 10.0, negated
\* after a leading b'-'. The two operands are bound to their values before
\* they are added.
parse_measurement(mb) ==
    LET wb0 == Slice(mb, 0, Len(mb) - 2)
        negative == Len(wb0) > 0 /\ wb0[1] = MINUS
        wb == IF negative THEN Tail(wb0) ELSE wb0
        fractional == byte_ascii_digit(mb[Len(mb)])
        whole == WholeOf(wb, Len(wb), 1)
        frac == IF fractional > 15 THEN F32_BIG
                ELSE RoundToEven(fractional * F32_ONE, 10,
                                 UlpOf((fractional * F32_ONE) \div 10, 1))
    IN  CHOOSE measurement \in
            {IF negative THEN 0 - sum ELSE sum :
                sum \in {IF w >= 8 THEN F32_BIG ELSE F32Add(w * F32_ONE, f) :
                            w \in {whole}, f \in {frac}}} : TRUE

\* Result::default()
DefaultResult == [min |-> INFINITY, sum |-> 0, count |-> 0, max |-> NEG_INFINITY]

\* Results::default(): the empty table.
EmptyResults == [k \in {} |-> DefaultResult]

\* The table update without the update of the bounds (mutant).
AddMeasurementWithoutBounds(results, station, m) ==
    LET old == IF station \in DOMAIN results THEN results[station] ELSE DefaultResult
        new == [min |-> old.min, sum |-> F32Add(old.sum, m),
                count |-> old.count + 1, max |-> old.max]
    IN  [k \in DOMAIN results \cup {station} |-> IF k = station THEN new ELSE results[k]]

\* The table update of parse_buffer for one record.
AddMeasurement(results, station, m) ==
    LET old == IF station \in DOMAIN results THEN results[station] ELSE DefaultResult
        new == [min |-> F32Min(m, old.min), sum |-> F32Add(old.sum, m),
                count |-> old.count + 1, max |-> F32Max(m, old.max)]
    IN  [k \in DOMAIN results \cup {station} |-> IF k = station THEN new ELSE results[k]]

RECURSIVE FindByte(_, _, _)
\* The first index k >= from (0-based) with buffer[k] = b; Len(buffer) if none.
FindByte(buffer, from, b) ==
    IF from >= Len(buffer) THEN Len(buffer)
    ELSE IF buffer[from + 1] = b THEN from
    ELSE FindByte(buffer, from + 1, b)

\* The two scans of parse_buffer from a record boundary i: the index of the
\* next b';' and of the first b'\n' after it.
NextRecord(buffer, i) ==
    CHOOSE span \in {<<semi, FindByte(buffer, semi + 1, NL)>> :
                        semi \in {FindByte(buffer, i, SEMI)}} : TRUE

\* The state of parse_buffer after the record "station;mb\n" that ends
\* before index j: the measurement is parsed and folded into the table.
\* (The measurement is bound to its value, so that it is computed once.)
fold_record(st, station, mb, j) ==
    CHOOSE next \in {[i |-> j, consumed |-> j,
                      results |-> AddMeasurement(st.results, station, m),
                      panic |-> FALSE,
                      recs |-> Append(st.recs, <<st.i, j>>)] :
                        m \in {parse_measurement(mb)}} : TRUE

RECURSIVE parse_records(_, _, _)
\* One round of the loop of parse_buffer from the record boundary st.i
\* (= station_start), span being the two indices the scans stop at, and the
\* rounds after it.
parse_record(buffer, dbg, st, span) ==
    LET semi == span[1]
        j == span[2]
    IN  IF semi >= Len(buffer) \/ j >= Len(buffer) THEN st
        ELSE CHOOSE out \in
                 UNION {{IF MeasurementPanics(mb, dbg) THEN [st EXCEPT !.panic = TRUE]
                         ELSE parse_records(buffer, dbg, next) :
                             next \in {fold_record(st, station, mb, j + 1)}} :
                         station \in {Slice(buffer, st.i, semi)},
                         mb \in {Slice(buffer, semi + 1, j)}} : TRUE

\* The loop of parse_buffer from the state from.  st.recs lists the spans
\* [station_start, j) of the records folded so far.  (The state and the scan
\* are bound to their values here, so that no round computes them again.)
parse_records(buffer, dbg, from) ==
    CHOOSE out \in UNION {{parse_record(buffer, dbg, st, span) :
                              span \in {NextRecord(buffer, st.i)}} : st \in {from}} : TRUE

parse_buffer(start_index, buffer, results, dbg) ==
    parse_records(buffer, dbg,
        [i |-> start_index, consumed |-> 0, results |-> results,
         panic |-> FALSE, recs |-> <<>>])

\* ----------------------------------------------------------------- merge
\* merge_chunk_results with b's fragment put before a's (mutant).
merge_prepending(a, b) ==
    [unconsumed |-> b.unconsumed \o a.unconsumed,
     results |->
        [k \in DOMAIN a.results \cup DOMAIN b.results |->
            IF k \in DOMAIN b.results
            THEN LET r == IF k \in DOMAIN a.results THEN a.results[k] ELSE DefaultResult
                     v == b.results[k]
                 IN  [min |-> F32Min(v.min, r.min), sum |-> F32Add(r.sum, v.sum),
                      count |-> r.count + v.count, max |-> F32Max(v.max, r.max)]
            ELSE a.results[k]]]

\* merge_chunk_results that assigns b's bounds instead of combining (mutant).
merge_overwriting_bounds(a, b) ==
    [unconsumed |-> a.unconsumed \o b.unconsumed,
     results |->
        [k \in DOMAIN a.results \cup DOMAIN b.results |->
            IF k \in DOMAIN b.results
            THEN LET r == IF k \in DOMAIN a.results THEN a.results[k] ELSE DefaultResult
                     v == b.results[k]
                 IN  [min |-> v.min, sum |-> F32Add(r.sum, v.sum),
                      count |-> r.count + v.count, max |-> v.max]
            ELSE a.results[k]]]

merge_chunk_results(a, b) ==
    [unconsumed |-> a.unconsumed \o b.unconsumed,
     results |->
        [k \in DOMAIN a.results \cup DOMAIN b.results |->
            IF k \in DOMAIN b.results
            THEN LET r == IF k \in DOMAIN a.results THEN a.results[k] ELSE DefaultResult
                     v == b.results[k]
                 IN  [min |-> F32Min(v.min, r.min), sum |-> F32Add(r.sum, v.sum),
                      count |-> r.count + v.count, max |-> F32Max(v.max, r.max)]
            ELSE a.results[k]]]

\* ChunkProcessingResult::default()
DefaultChunkResult == [unconsumed |-> <<>>, results |-> EmptyResults]

\* --------------------------------------------------------------- planner
\* chunk_indices that forgets the remainder of the last range (mutant).
chunk_indices_without_remainder(num_chunks, total_len) ==
    LET chunk_size == total_len \div num_chunks
    IN  [n \in 1..num_chunks |-> <<(n - 1) * chunk_size, n * chunk_size>>]

chunk_indices(num_chunks, total_len) ==
    LET chunk_size == total_len \div num_chunks
    IN  [n \in 1..num_chunks |->
            LET i == n - 1
                start == i * chunk_size
            IN  <<start, IF i = num_chunks - 1 THEN total_len ELSE start + chunk_size>>]

\* ---------------------------------------------------------------- buffer
\* A byte of the buffer that no read has written yet (MaybeUninit).
UNINIT == 0 - 1

\* Buffer::with_capacity
with_capacity(capacity) ==
    [buf |-> [k \in 1..capacity |-> UNINIT], pos |-> 0, filled |-> 0, initialized |-> 0]

\* Buffer::buffer: the unread bytes buf[pos..filled).
buffer(b) == Slice(b.buf, b.pos, b.filled)

\* Buffer::consume without the clamp to filled (mutant).
consume_unclamped(b, amt) == [b EXCEPT !.pos = b.pos + amt]

\* Buffer::consume
consume(b, amt) == [b EXCEPT !.pos = Min(b.pos + amt, b.filled)]

\* Buffer::backshift that moves the cursors and not the bytes (mutant).
backshift_without_copy(b) == [b EXCEPT !.filled = b.filled - b.pos, !.pos = 0]

\* Buffer::backshift: copy_within(pos..filled, 0), then the two cursors.
backshift(b) ==
    [b EXCEPT !.buf = [k \in 1..Len(b.buf) |->
                          IF k <= b.filled - b.pos THEN b.buf[b.pos + k] ELSE b.buf[k]],
              !.filled = b.filled - b.pos,
              !.pos = 0]

\* The room read_more offers the reader: self.buf[self.filled..].
Room(b) == Len(b.buf) - b.filled

\* Buffer::read_more that offers the reader buf[pos..] (mutant).
read_more_from_pos(b, data) ==
    [b EXCEPT !.buf = [k \in 1..Len(b.buf) |->
                          IF k > b.pos /\ k <= b.pos + Len(data)
                          THEN data[k - b.pos] ELSE b.buf[k]],
              !.filled = b.filled + Len(data),
              !.initialized = Max(b.initialized, b.filled + Len(data))]

\* Buffer::read_more when the reader returns the bytes data (no more than
\* Room(b) of them): they land after the filled region.
read_more(b, data) ==
    [b EXCEPT !.buf = [k \in 1..Len(b.buf) |->
                          IF k > b.filled /\ k <= b.filled + Len(data)
                          THEN data[k - b.filled] ELSE b.buf[k]],
              !.filled = b.filled + Len(data),
              !.initialized = Max(b.initialized, b.filled + Len(data))]

\* Buffer::fill_buf that takes the bytes of this read for the initialized
\* ones (mutant).
fill_buf_forgetting_initialized(b, data) ==
    IF b.pos >= b.filled
    THEN [b EXCEPT !.buf = [k \in 1..Len(b.buf) |->
                               IF k <= Len(data) THEN data[k] ELSE b.buf[k]],
                   !.pos = 0,
                   !.filled = Len(data),
                   !.initialized = Len(data)]
    ELSE b

\* Buffer::fill_buf when the reader returns the bytes data: a read happens
\* only when the buffer holds no unread byte, and starts at offset 0.
fill_buf(b, data) ==
    IF b.pos >= b.filled
    THEN [b EXCEPT !.buf = [k \in 1..Len(b.buf) |->
                               IF k <= Len(data) THEN data[k] ELSE b.buf[k]],
                   !.pos = 0,
                   !.filled = Len(data),
                   !.initialized = Max(b.initialized, Len(data))]
    ELSE b

\* The byte counts a read of at most max bytes may return: the Read contract
\* allows any count from 1 to max while the source has bytes, and 0 only when
\* max is 0 (no room, or the Take limit is used up).
ReadSizes(max) == IF max = 0 THEN {0} ELSE 1..max

\* ---------------------------------------------------------------- inputs
\* The records of the modelled files: two stations, one of them with two
\* different values, in lines of 6 and 8 bytes.
StationA == <<65>>
StationBC == <<66, 67>>
Records == {<<StationA, <<ZERO, DOT, ZERO + 1>>>>,
            <<StationA, <<ZERO, DOT, ZERO + 5>>>>,
            <<StationBC, <<MINUS, ZERO + 1, DOT, ZERO + 2>>>>}

\* The record "key;value\n".
Line(key, value) == key \o <<SEMI>> \o value \o <<NL>>

\* The sequences of at most n records (key, value).
RecordSeqs(n) == UNION {[1..k -> Records] : k \in 0..n}

RECURSIVE FileOf(_)
\* The file made of the records recs, one line each.
FileOf(recs) ==
    IF recs = <<>> THEN <<>>
    ELSE Line(recs[1][1], recs[1][2]) \o FileOf(Tail(recs))

\* ----------------------------------------------------------------- state
VARIABLES
    records,           \* the records measurements.txt was written from (history)
    file,              \* the bytes of measurements.txt
    cpu_count,         \* num_cpus::get()
    debug_assertions,  \* the build: debug (TRUE) or release (FALSE)
    mainPc,            \* where main is
    chunks,            \* the ranges chunk_indices produced, one per handle
    joined,            \* the number of handles the fold has joined
    acc,               \* the accumulator of the fold, then chunk_processing_result
    consumed,          \* main's local `consumed`
    results,           \* main's sorted Vec of (station, Result)
    written,           \* the number of entries written to stdout
    stdout,            \* the bytes written to standard output
    wpc,               \* per worker: where process_chunk is
    reader,            \* per worker: the BufReader (buf) and its Take<File> (inner)
    local,             \* per worker: the locals results, bytes, i, unconsumed, read
    output,            \* per worker: the value process_chunk returned
    trace,             \* per worker: the file offsets folded and copied, and,
                       \* until the first parse, the offset it starts at (history)
    operands,          \* three worker outcomes A, B, C (the merge algebra only)
    merged,            \* their merges in both groupings and orders
    alone,             \* a Buffer driven on its own: the Buffer, the Buffer before
                       \* the last call, the call, its result, the reader's position
    parsed             \* a value string given to parse_measurement on its own,
                       \* and what it returned

vars == <<records, file, cpu_count, debug_assertions, mainPc, chunks, joined, acc,
          consumed, results, written, stdout, wpc, reader, local, output, trace,
          operands, merged, alone, parsed>>

mainVars == <<mainPc, chunks, joined, acc, consumed, results, written, stdout>>
workerVars == <<wpc, reader, local, output, trace>>
inputVars == <<records, file, cpu_count, debug_assertions, operands, merged, alone,
               parsed>>

Workers == 1..cpu_count

\* The state of a thread that is not spawned yet.
NoReader == [buf |-> with_capacity(0), limit |-> 0, fpos |-> 0]
NoLocal == [results |-> EmptyResults, bytes |-> <<>>, i |-> 0, unconsumed |-> <<>>, read |-> 0]
\* No Buffer is driven on its own.
NoBuffer == [buf |-> with_capacity(0), before |-> with_capacity(0), op |-> "none",
             ret |-> 0, fpos |-> 0, seen |-> {}]
\* No value string is parsed on its own.
NoValue == [negative |-> FALSE, zeros |-> 0, whole |-> 0, fractional |-> 0,
            text |-> <<>>, returned |-> FALSE, measurement |-> 0]
NoTrace == [folded |-> <<>>, copied |-> <<>>, begin |-> <<>>, exit |-> "none",
            unread |-> 0, full |-> FALSE, overtaken |-> FALSE]

\* The state of main and of the threads before main runs.
Startup ==
    /\ mainPc = "start"
    /\ chunks = <<>>
    /\ joined = 0
    /\ acc = DefaultChunkResult
    /\ consumed = 0
    /\ results = <<>>
    /\ written = 0
    /\ stdout = <<>>
    /\ wpc = [w \in Workers |-> "unspawned"]
    /\ reader = [w \in Workers |-> NoReader]
    /\ local = [w \in Workers |-> NoLocal]
    /\ output = [w \in Workers |-> DefaultChunkResult]
    /\ trace = [w \in Workers |-> NoTrace]

\* A run of the program on a well-formed file.
Init ==
    /\ records \in RecordSeqs(MaxLines)
    /\ file = FileOf(records)
    /\ cpu_count \in 1..MaxWorkers
    /\ debug_assertions \in BOOLEAN
    /\ operands = <<>>
    /\ merged = <<>>
    /\ alone = NoBuffer
    /\ parsed = NoValue
    /\ Startup

\* ---------------------------------------------------------------- worker
\* The n bytes of the file from offset from on.
FileBytes(from, n) == Slice(file, from, from + n)

\* The offsets a, a+1, ..., b-1 as a sequence.
Offsets(a, b) == [k \in 1..(b - a) |-> a + k - 1]

RECURSIVE SpanOffsets(_, _)
\* The file offsets of the record spans recs of a slice that starts at base.
SpanOffsets(recs, base) ==
    IF recs = <<>> THEN <<>>
    ELSE Offsets(base + recs[1][1], base + recs[1][2]) \o SpanOffsets(Tail(recs), base)

chunk_start(w) == chunks[w][1]
chunk_end(w) == chunks[w][2]

Running(w) == wpc[w] \in {"open", "fill", "loop"}

\* A worker panics: its thread unwinds (the reader and the locals are
\* dropped) and its handle will yield Err.
Panic(w) ==
    /\ wpc' = [wpc EXCEPT ![w] = "panicked"]
    /\ reader' = [reader EXCEPT ![w] = NoReader]
    /\ local' = [local EXCEPT ![w] = NoLocal]
    /\ trace' = [trace EXCEPT ![w] = NoTrace]
    /\ UNCHANGED output

\* The end of process_chunk once the refill loop is left: the unread bytes
\* become the trailing fragment, the result is returned and the reader and
\* the locals are dropped.  rd and loc are the reader and the locals at that
\* point, exit tells how the loop was left: "refill" when read_more returned
\* 0, "empty" when bytes was empty at the loop's first test.
Return(w, rd, loc, folded, copied, exit) ==
    LET unconsumed == IF Len(loc.bytes) > 0 THEN loc.unconsumed \o loc.bytes
                      ELSE loc.unconsumed
        base == rd.fpos - Len(loc.bytes)
    IN  /\ wpc' = [wpc EXCEPT ![w] = "done"]
        /\ reader' = [reader EXCEPT ![w] = NoReader]
        /\ local' = [local EXCEPT ![w] = NoLocal]
        /\ output' = [output EXCEPT ![w] =
                         [unconsumed |-> unconsumed, results |-> loc.results]]
        /\ trace' = [trace EXCEPT ![w] =
                        [folded |-> folded,
                         copied |-> copied \o Offsets(base, rd.fpos),
                         begin |-> <<>>,
                         exit |-> exit,
                         unread |-> rd.limit,
                         full |-> Room(rd.buf) = 0,
                         overtaken |-> \E v \in Workers : v < w /\ Running(v)]]

\* File::open, the seek to chunk_start, file.take(..) and BufReader::new.
WOpen(w) ==
    /\ wpc[w] = "open"
    /\ \E ok \in BOOLEAN :
        IF ~ok THEN Panic(w)
        ELSE /\ wpc' = [wpc EXCEPT ![w] = "fill"]
             /\ reader' = [reader EXCEPT ![w] =
                   [buf |-> with_capacity(BufCapacity),
                    limit |-> chunk_end(w) - chunk_start(w),
                    fpos |-> chunk_start(w)]]
             /\ UNCHANGED <<local, output, trace>>
    /\ UNCHANGED <<inputVars, mainVars>>

\* reader.fill_buf() and the scan for the first newline of a chunk that does
\* not start the file.
WFill(w) ==
    /\ wpc[w] = "fill"
    /\ \E ok \in BOOLEAN :
        IF ~ok THEN Panic(w)
        ELSE \E n \in ReadSizes(Min(Room(reader[w].buf), reader[w].limit)) :
            \E b \in {fill_buf(reader[w].buf, FileBytes(reader[w].fpos, n))} :
            \E bytes \in {buffer(b)} :
            \E nl \in {FindByte(bytes, 0, NL)} :
            LET rd == [buf |-> b, limit |-> reader[w].limit - n, fpos |-> reader[w].fpos + n]
                found == chunk_start(w) # 0 /\ nl < Len(bytes)
                i == IF chunk_start(w) = 0 THEN 0
                     ELSE IF found THEN nl + 1 ELSE Len(bytes)
                unconsumed == IF found THEN Slice(bytes, 0, i) ELSE <<>>
                loc == [results |-> EmptyResults, bytes |-> bytes, i |-> i,
                        unconsumed |-> unconsumed, read |-> n]
                base == rd.fpos - Len(bytes)
                copied == IF found THEN Offsets(base, base + i) ELSE <<>>
            IN  IF Len(bytes) > 0
                THEN /\ wpc' = [wpc EXCEPT ![w] = "loop"]
                     /\ reader' = [reader EXCEPT ![w] = rd]
                     /\ local' = [local EXCEPT ![w] = loc]
                     /\ trace' = [trace EXCEPT ![w].copied = copied,
                                                ![w].begin = <<base + i>>]
                     /\ UNCHANGED output
                ELSE Return(w, rd, loc, <<>>, copied, "empty")
    /\ UNCHANGED <<inputVars, mainVars>>

\* The test that leaves the refill loop, without its break (mutant).
LoopBreaksNever(read) == FALSE

\* The test that leaves the refill loop: if read == 0 { break; }
LoopBreaks(read) == read = 0

\* One iteration of the refill loop: parse_buffer, consume, backshift,
\* read_more; the loop is left when read_more returns 0.  (A value bound by
\* \E over a singleton is computed once, where a LET is computed at each use.)
WLoop(w) ==
    /\ wpc[w] = "loop"
    /\ \E pb \in {parse_buffer(local[w].i, local[w].bytes, local[w].results,
                                debug_assertions)} :
       \E b1 \in {backshift(consume(reader[w].buf, pb.consumed))} :
       LET base == reader[w].fpos - Len(local[w].bytes)
           folded == trace[w].folded \o SpanOffsets(pb.recs, base)
       IN  IF pb.panic THEN Panic(w)
           ELSE \E ok \in BOOLEAN :
               IF ~ok THEN Panic(w)
               ELSE \E n \in ReadSizes(Min(Room(b1), reader[w].limit)) :
                   LET b2 == read_more(b1, FileBytes(reader[w].fpos, n))
                       rd == [buf |-> b2, limit |-> reader[w].limit - n,
                              fpos |-> reader[w].fpos + n]
                       loc == [local[w] EXCEPT !.results = pb.results,
                                               !.bytes = buffer(b2),
                                               !.read = n]
                   IN  IF LoopBreaks(n)
                       THEN Return(w, rd, loc, folded, trace[w].copied, "refill")
                       ELSE /\ wpc' = [wpc EXCEPT ![w] = "loop"]
                            /\ reader' = [reader EXCEPT ![w] = rd]
                            /\ local' = [local EXCEPT ![w] = [loc EXCEPT !.i = 0]]
                            /\ trace' = [trace EXCEPT ![w].folded = folded,
                                                       ![w].begin = <<>>]
                            /\ UNCHANGED output
    /\ UNCHANGED <<inputVars, mainVars>>

\* ------------------------------------------------------------------ main
RECURSIVE cmp_reversed(_, _)
\* The comparison with its arguments swapped (mutant).
cmp_reversed(a, b) ==
    IF a = <<>> /\ b = <<>> THEN "Equal"
    ELSE IF a = <<>> THEN "Greater"
    ELSE IF b = <<>> THEN "Less"
    ELSE IF a[1] < b[1] THEN "Greater"
    ELSE IF a[1] > b[1] THEN "Less"
    ELSE cmp_reversed(Tail(a), Tail(b))

RECURSIVE cmp(_, _)
\* Vec<u8>::cmp: lexicographic on the bytes, a proper prefix first.
cmp(a, b) ==
    IF a = <<>> /\ b = <<>> THEN "Equal"
    ELSE IF a = <<>> THEN "Less"
    ELSE IF b = <<>> THEN "Greater"
    ELSE IF a[1] < b[1] THEN "Less"
    ELSE IF a[1] > b[1] THEN "Greater"
    ELSE cmp(Tail(a), Tail(b))

RECURSIVE SortedStations(_)
\* The stations S in the order of cmp (the keys of a table are distinct).
SortedStations(S) ==
    IF S = {} THEN <<>>
    ELSE LET first == CHOOSE x \in S : \A y \in S : cmp(x, y) # "Greater"
         IN  <<first>> \o SortedStations(S \ {first})

\* results.into_iter().collect() and sort_unstable_by(|a, b| a.0.cmp(&b.0)).
sort_unstable_by(table) ==
    LET order == SortedStations(DOMAIN table)
    IN  [k \in 1..Len(order) |-> <<order[k], table[order[k]]>>]

\* What main writes for one entry: the station, then "={min:.1}/{avg:.1}/{max:.1}".
Entry(e) ==
    LET r == e[2]
        avg == F32Div(r.sum, r.count)
    IN  e[1] \o <<EQUALS>> \o FormatF32(r.min, 1) \o <<SLASH>>
             \o FormatF32(avg.num, avg.den) \o <<SLASH>> \o FormatF32(r.max, 1)

MainPanicked ==
    mainPc \in {"panic_startup", "panic_join", "panic_parse", "panic_assert", "panic_index"}

\* File::open, metadata().len(), and the spawn of one thread per range.
MSpawn ==
    /\ mainPc = "start"
    /\ \E ok \in BOOLEAN :
        IF ~ok
        THEN /\ mainPc' = "panic_startup"
             /\ UNCHANGED <<chunks, wpc>>
        ELSE /\ mainPc' = "join"
             /\ chunks' = chunk_indices(cpu_count, Len(file))
             /\ wpc' = [w \in Workers |-> "open"]
    /\ UNCHANGED <<inputVars, joined, acc, consumed, results, written, stdout,
                   reader, local, output, trace>>

\* MJoin that takes a failed worker's outcome to be the default (mutant).
MJoinIgnoringFailure ==
    /\ mainPc = "join"
    /\ wpc[joined + 1] \in {"done", "panicked"}
    /\ acc' = merge_chunk_results(acc, output[joined + 1])
    /\ joined' = joined + 1
    /\ mainPc' = IF joined + 1 = cpu_count THEN "reconcile" ELSE "join"
    /\ UNCHANGED <<inputVars, chunks, consumed, results, written, stdout, workerVars>>

\* MJoin that takes the next handle's value without waiting for its thread
\* (mutant).
MJoinWithoutWaiting ==
    /\ mainPc = "join"
    /\ IF wpc[joined + 1] = "panicked"
       THEN /\ mainPc' = "panic_join"
            /\ UNCHANGED <<joined, acc>>
       ELSE /\ acc' = merge_chunk_results(acc, output[joined + 1])
            /\ joined' = joined + 1
            /\ mainPc' = IF joined + 1 = cpu_count THEN "reconcile" ELSE "join"
    /\ UNCHANGED <<inputVars, chunks, consumed, results, written, stdout, workerVars>>

\* One step of handles.into_iter().map(|h| h.join().unwrap()).fold(..): the
\* next handle in spawn order is joined, and its value merged at once.
MJoin ==
    /\ mainPc = "join"
    /\ wpc[joined + 1] \in {"done", "panicked"}
    /\ IF wpc[joined + 1] = "panicked"
       THEN /\ mainPc' = "panic_join"
            /\ UNCHANGED <<joined, acc>>
       ELSE /\ acc' = merge_chunk_results(acc, output[joined + 1])
            /\ joined' = joined + 1
            /\ mainPc' = IF joined + 1 = cpu_count THEN "reconcile" ELSE "join"
    /\ UNCHANGED <<inputVars, chunks, consumed, results, written, stdout, workerVars>>

\* parse_buffer over the concatenated leftovers, and the debug assertion.
MReconcile ==
    /\ mainPc = "reconcile"
    /\ \E pb \in {parse_buffer(0, acc.unconsumed, acc.results, debug_assertions)} :
           IF pb.panic
           THEN /\ mainPc' = "panic_parse"
                /\ UNCHANGED <<acc, consumed>>
           ELSE /\ acc' = [acc EXCEPT !.results = pb.results]
                /\ consumed' = pb.consumed
                /\ mainPc' = IF debug_assertions /\ pb.consumed # Len(acc.unconsumed)
                             THEN "panic_assert" ELSE "write"
    /\ UNCHANGED <<inputVars, chunks, joined, results, written, stdout, workerVars>>

\* The sort, the write of "{", and the slice results[..results.len() - 1],
\* whose bound underflows on an empty Vec.
MWriteOpen ==
    /\ mainPc = "write"
    /\ results' = sort_unstable_by(acc.results)
    /\ stdout' = stdout \o <<LBRACE>>
    /\ mainPc' = IF Len(results') = 0 THEN "panic_index" ELSE "entries"
    /\ UNCHANGED <<inputVars, chunks, joined, acc, consumed, written, workerVars>>

\* One iteration of the loop over all entries but the last.
MWriteEntry ==
    /\ mainPc = "entries"
    /\ written < Len(results) - 1
    /\ stdout' = stdout \o Entry(results[written + 1]) \o <<COMMA, SPACE>>
    /\ written' = written + 1
    /\ UNCHANGED <<inputVars, mainPc, chunks, joined, acc, consumed, results, workerVars>>

\* The last entry and the closing brace.
MWriteLast ==
    /\ mainPc = "entries"
    /\ written = Len(results) - 1
    /\ stdout' = stdout \o Entry(results[Len(results)]) \o <<RBRACE>>
    /\ written' = written + 1
    /\ mainPc' = "done"
    /\ UNCHANGED <<inputVars, chunks, joined, acc, consumed, results, workerVars>>

Next ==
    \/ MSpawn
    \/ MJoin
    \/ MReconcile
    \/ MWriteOpen
    \/ MWriteEntry
    \/ MWriteLast
    \/ \E w \in Workers : WOpen(w)
    \/ \E w \in Workers : WFill(w)
    \/ \E w \in Workers : WLoop(w)

Spec == Init /\ [][Next]_vars

\* ------------------------------------------------------------- fairness
\* The steps of main, and the steps of worker w in which no I/O call fails.
MainStep == MSpawn \/ MJoin \/ MReconcile \/ MWriteOpen \/ MWriteEntry \/ MWriteLast
WStep(w) ==
    /\ w \in Workers
    /\ WOpen(w) \/ WFill(w) \/ WLoop(w)
    /\ wpc'[w] # "panicked"

\* The runs on the shorter files.
InitLive ==
    /\ records \in RecordSeqs(MaxLiveLines)
    /\ file = FileOf(records)
    /\ cpu_count \in 1..MaxWorkers
    /\ debug_assertions \in BOOLEAN
    /\ operands = <<>>
    /\ merged = <<>>
    /\ alone = NoBuffer
    /\ parsed = NoValue
    /\ Startup

\* The scheduler runs every thread that can take a step, and a read of a
\* regular file returns: main and each worker keep taking steps while they
\* have one.  Nothing obliges an I/O call to fail.
SpecLive ==
    /\ InitLive
    /\ [][Next]_vars
    /\ WF_vars(MainStep)
    /\ \A w \in 1..MaxWorkers : WF_vars(WStep(w))

\* ------------------------------------------------- the chunk planner alone
\* chunk_indices on every worker count and every file length within the
\* bounds; the planner does not look at the bytes.
InitPlan ==
    /\ records = <<>>
    /\ file \in {[k \in 1..n |-> 65] : n \in 0..MaxTotalLen}
    /\ cpu_count \in 1..MaxChunks
    /\ debug_assertions = FALSE
    /\ operands = <<>>
    /\ merged = <<>>
    /\ alone = NoBuffer
    /\ parsed = NoValue
    /\ Startup

SpecPlan == InitPlan /\ [][MSpawn]_vars

\* The ranges of the plan that hold the byte offset o.
RangesHolding(o) == {n \in DOMAIN chunks : chunks[n][1] <= o /\ o < chunks[n][2]}

\* C5: the plan has one range per worker, the ranges are well-formed and
\* contiguous from 0 to the file length, so each byte lies in exactly one.
PlanTilesFile ==
    mainPc = "join" =>
        /\ Len(chunks) = cpu_count
        /\ chunks[1][1] = 0
        /\ chunks[cpu_count][2] = Len(file)
        /\ \A n \in 1..cpu_count : chunks[n][1] <= chunks[n][2]
        /\ \A n \in 1..(cpu_count - 1) : chunks[n + 1][1] = chunks[n][2]
        /\ \A o \in 0..(Len(file) - 1) : Cardinality(RangesHolding(o)) = 1

\* C5 happens: a plan for more workers than bytes, and one with a remainder.
PlanTilesFileWitness ==
    /\ mainPc = "join"
    /\ \/ (0 < Len(file) /\ Len(file) < cpu_count)
       \/ (cpu_count > 1 /\ Len(file) > cpu_count /\ Len(file) % cpu_count # 0)

\* ------------------------------------------------------ the merge algebra
\* The worker outcomes the algebra is tried on: the tables parse_buffer
\* builds from at most MaxOperandLines records.
Outcomes ==
    {[unconsumed |-> <<>>,
      results |-> parse_buffer(0, FileOf(r), EmptyResults, FALSE).results] :
        r \in RecordSeqs(MaxOperandLines)}

InitMerge ==
    /\ records = <<>>
    /\ file = <<>>
    /\ cpu_count = 1
    /\ debug_assertions = FALSE
    /\ operands \in [1..3 -> Outcomes]
    /\ merged = <<>>
    /\ alone = NoBuffer
    /\ parsed = NoValue
    /\ Startup

\* merge_chunk_results on A, B, C in both groupings and on A, B in both orders.
Regroup ==
    /\ merged = <<>>
    /\ operands # <<>>
    /\ merged' =
          [ab_c |-> merge_chunk_results(merge_chunk_results(operands[1], operands[2]),
                                        operands[3]),
           a_bc |-> merge_chunk_results(operands[1],
                                        merge_chunk_results(operands[2], operands[3])),
           ab |-> merge_chunk_results(operands[1], operands[2]),
           ba |-> merge_chunk_results(operands[2], operands[1])]
    /\ UNCHANGED <<records, file, cpu_count, debug_assertions, operands, alone,
                   parsed, mainVars, workerVars>>

SpecMerge == InitMerge /\ [][Regroup]_vars

\* ------------------------------------------------------- the Buffer alone
\* A Buffer of every capacity within the bound, on which fill_buf, read_more,
\* consume and backshift are called in every order.  The reader yields the
\* bytes of the file in order, any number of them that fits at a time
\* (none included: the end of the source, or a read that failed before it
\* wrote a byte).
InitBuffer ==
    /\ records \in [1..1 -> Records]
    /\ file = FileOf(records)
    /\ cpu_count = 1
    /\ debug_assertions = FALSE
    /\ operands = <<>>
    /\ merged = <<>>
    /\ \E capacity \in 0..MaxAloneCapacity :
          alone = [buf |-> with_capacity(capacity), before |-> with_capacity(capacity),
                   op |-> "with_capacity", ret |-> 0, fpos |-> 0, seen |-> {}]
    /\ parsed = NoValue
    /\ Startup

\* The state after a call op that left the Buffer b, returned ret and took n
\* bytes from the reader.
Called(op, b, ret, n) ==
    /\ alone' = [buf |-> b, before |-> alone.buf, op |-> op, ret |-> ret,
                 fpos |-> alone.fpos + n, seen |-> alone.seen \cup {op}]
    /\ UNCHANGED <<records, file, cpu_count, debug_assertions, operands, merged,
                   parsed, mainVars, workerVars>>

\* buf.fill_buf(reader): the read is offered the whole buffer.
BFillBuf ==
    /\ alone.op # "none"
    /\ \E n \in 0..Min(Len(alone.buf.buf), Len(file) - alone.fpos) :
          LET reads == alone.buf.pos >= alone.buf.filled
              got == IF reads THEN n ELSE 0
              b == fill_buf(alone.buf, FileBytes(alone.fpos, got))
          IN  Called("fill_buf", b, Len(buffer(b)), got)

\* buf.read_more(reader): the read is offered buf[filled..].
BReadMore ==
    /\ alone.op # "none"
    /\ \E n \in 0..Min(Room(alone.buf), Len(file) - alone.fpos) :
          Called("read_more", read_more(alone.buf, FileBytes(alone.fpos, n)), n, n)

\* buf.consume(amt), for amounts up to past the end of the buffer.
BConsume ==
    /\ alone.op # "none"
    /\ \E amt \in 0..(Len(alone.buf.buf) + 1) :
          Called("consume", consume(alone.buf, amt), amt, 0)

\* buf.backshift()
BBackshift ==
    /\ alone.op # "none"
    /\ Called("backshift", backshift(alone.buf), 0, 0)

BufferNext ==
    \/ BFillBuf
    \/ BReadMore
    \/ BConsume
    \/ BBackshift

SpecBuffer == InitBuffer /\ [][BufferNext]_vars

\* ------------------------------------------------ parse_measurement alone
RECURSIVE Zeros(_)
\* n bytes b'0'.
Zeros(n) == IF n = 0 THEN <<>> ELSE <<ZERO>> \o Zeros(n - 1)

\* The value string -?\d+\.\d of a sign, a number of leading zeros, a whole
\* part and a fractional digit.
ValueText(negative, zeros, whole, fractional) ==
    (IF negative THEN <<MINUS>> ELSE <<>>) \o Zeros(zeros) \o DecimalDigits(whole)
        \o <<DOT, ZERO + fractional>>

\* parse_measurement on every value string within the bounds.
InitParse ==
    /\ records = <<>>
    /\ file = <<>>
    /\ cpu_count = 1
    /\ debug_assertions = FALSE
    /\ operands = <<>>
    /\ merged = <<>>
    /\ alone = NoBuffer
    /\ \E negative \in BOOLEAN, zeros \in 0..MaxLeadingZeros,
          whole \in 0..MaxWholeValue, fractional \in 0..9 :
          parsed = [negative |-> negative, zeros |-> zeros, whole |-> whole,
                    fractional |-> fractional,
                    text |-> ValueText(negative, zeros, whole, fractional),
                    returned |-> FALSE, measurement |-> 0]
    /\ Startup

\* parse_measurement(measurement_bytes)
ParseValue ==
    /\ parsed.text # <<>>
    /\ ~parsed.returned
    /\ ~MeasurementPanics(parsed.text, debug_assertions)
    /\ parsed' = [parsed EXCEPT !.returned = TRUE,
                                !.measurement = parse_measurement(parsed.text)]
    /\ UNCHANGED <<records, file, cpu_count, debug_assertions, operands, merged,
                   alone, mainVars, workerVars>>

SpecParse == InitParse /\ [][ParseValue]_vars

\* ------------------------------------------------------------ properties
\* The unread bytes of a running worker are the bytes of the file that end at
\* the reader's position: the history in trace numbers them by this.
BufferIsFileWindow ==
    \A w \in Workers :
        wpc[w] = "loop" =>
            /\ local[w].bytes = buffer(reader[w].buf)
            /\ local[w].bytes =
                   Slice(file, reader[w].fpos - Len(local[w].bytes), reader[w].fpos)

\* main is past the reconciliation pass (and its assertion, in a debug build).
Reconciled == mainPc \in {"write", "entries", "done"}

\* The table one worker over the whole file builds: the records folded in
\* file order.
SingleWorkerTable == parse_buffer(0, file, EmptyResults, FALSE).results

\* The stations of the file, and the number of records of a station.
StationsOfFile == {records[k][1] : k \in 1..Len(records)}
RecordCount(station) == Cardinality({k \in 1..Len(records) : records[k][1] = station})

\* The number of times x occurs in the sequence s.
Occurrences(s, x) == Cardinality({k \in 1..Len(s) : s[k] = x})

\* With one worker the run is the single pass: the reference of C1.
OneWorkerIsSinglePass ==
    cpu_count = 1 =>
        /\ mainPc \notin {"panic_parse", "panic_assert"}
        /\ Reconciled => acc.results = SingleWorkerTable /\ acc.unconsumed = <<>>

\* C1: whatever the worker count, the table after the reconciliation pass is
\* the table a single worker over the whole file produces.
ChunkCountInvariance ==
    Reconciled => acc.results = SingleWorkerTable

\* C2: after the reconciliation pass the table has exactly the stations of
\* the file, each with as many observations as the file has records of it.
ExactlyOnceCounting ==
    Reconciled =>
        /\ DOMAIN acc.results = StationsOfFile
        /\ \A st \in DOMAIN acc.results : acc.results[st].count = RecordCount(st)

\* The concatenations of some of the file's records, in file order.
WholeRecordSequences ==
    {FileOf([k \in 1..Len(pick) |-> records[pick[k]]]) :
        pick \in {p \in UNION {[1..n -> 1..Len(records)] : n \in 0..Len(records)} :
                     \A a, b \in DOMAIN p : a < b => p[a] < p[b]}}

\* C3: the leftovers joined in chunk order are whole records of the file, and
\* the reconciliation pass consumes all of them (the assertion holds).
LeftoverRoundTrip ==
    /\ mainPc # "panic_assert"
    /\ mainPc = "reconcile" => acc.unconsumed \in WholeRecordSequences
    /\ Reconciled => consumed = Len(acc.unconsumed)

\* C9: when read_more returns 0 and ends the refill loop, the worker has read
\* its whole range; it is never the full buffer that made the read empty.
ZeroRefillMeansExhausted ==
    \A w \in Workers :
        (wpc[w] = "done" /\ trace[w].exit = "refill") => trace[w].unread = 0

\* C10: every byte of a finished worker's range was either folded into a
\* record of its table or copied into its unconsumed fragment, exactly once.
NoByteTwice ==
    \A w \in Workers :
        wpc[w] = "done" =>
            \A o \in chunk_start(w)..(chunk_end(w) - 1) :
                Occurrences(trace[w].folded, o) + Occurrences(trace[w].copied, o) = 1

\* The table of a merge agrees with another on keys, counts, mins and maxes.
SameButSums(t, u) ==
    /\ DOMAIN t = DOMAIN u
    /\ \A k \in DOMAIN t :
          /\ t[k].count = u[k].count
          /\ t[k].min = u[k].min
          /\ t[k].max = u[k].max

\* The sum of station k in outcome o, 0.0 when o has no such station.
SumIn(o, k) == IF k \in DOMAIN o.results THEN o.results[k].sum ELSE 0

\* No addition of the three sums of station k rounds, in either grouping.
SumsAreExact(k) ==
    LET a == SumIn(operands[1], k)
        b == SumIn(operands[2], k)
        c == SumIn(operands[3], k)
    IN  /\ F32Add(a, b) = a + b
        /\ F32Add(b, c) = b + c
        /\ F32Add(a + b, c) = a + b + c
        /\ F32Add(a, b + c) = a + b + c

\* C7 as stated: both groupings give the same table, and so do both orders.
MergeAssociativeCommutative ==
    merged # <<>> =>
        /\ merged.ab_c.results = merged.a_bc.results
        /\ merged.ab.results = merged.ba.results

\* C7 as amended: merge is commutative on the table; it is associative on the
\* keys and on each key's count, min and max; the two groupings' f32 sums of a
\* key agree when no addition rounds; a key of one side only keeps its
\* aggregate.
MergeCommutativeAndAssociativeUpToRounding ==
    merged # <<>> =>
        /\ merged.ab.results = merged.ba.results
        /\ SameButSums(merged.ab_c.results, merged.a_bc.results)
        /\ \A k \in DOMAIN merged.ab_c.results :
              SumsAreExact(k) => merged.ab_c.results[k].sum = merged.a_bc.results[k].sum
        /\ \A k \in DOMAIN merged.ab.results :
              /\ k \notin DOMAIN operands[2].results =>
                    merged.ab.results[k] = operands[1].results[k]
              /\ k \notin DOMAIN operands[1].results =>
                    merged.ab.results[k] = operands[2].results[k]
              /\ (k \in DOMAIN operands[1].results /\ k \in DOMAIN operands[2].results) =>
                    /\ merged.ab.results[k].count =
                          operands[1].results[k].count + operands[2].results[k].count
                    /\ merged.ab.results[k].min =
                          Min(operands[1].results[k].min, operands[2].results[k].min)
                    /\ merged.ab.results[k].max =
                          Max(operands[1].results[k].max, operands[2].results[k].max)

\* C7 happens: three tables that share a station have been merged both ways,
\* and a fourth station came from one side only.
MergeWitness ==
    /\ merged # <<>>
    /\ \E k \in DOMAIN operands[1].results :
          k \in DOMAIN operands[2].results /\ k \in DOMAIN operands[3].results
    /\ \E k \in DOMAIN operands[2].results : k \notin DOMAIN operands[1].results

RECURSIVE LeftoversInOrder(_)
\* The fragments of workers 1..k joined in chunk order.
LeftoversInOrder(k) ==
    IF k = 0 THEN <<>> ELSE LeftoversInOrder(k - 1) \o output[k].unconsumed

RECURSIVE SumInOrder(_, _)
\* The f32 sum of station st over the tables of workers 1..k, in chunk order.
SumInOrder(st, k) ==
    IF k = 0 THEN 0
    ELSE IF st \in DOMAIN output[k].results
         THEN F32Add(SumInOrder(st, k - 1), output[k].results[st].sum)
         ELSE SumInOrder(st, k - 1)

\* The workers among 1..k whose table has station st.
Holders(st, k) == {w \in 1..k : st \in DOMAIN output[w].results}

RECURSIVE CountOver(_, _)
CountOver(st, ws) ==
    IF ws = {} THEN 0
    ELSE LET w == CHOOSE x \in ws : TRUE
         IN  output[w].results[st].count + CountOver(st, ws \ {w})

\* The table the outcomes of workers 1..k determine, whatever the order the
\* workers finished in.
TableInOrder(k) ==
    [st \in UNION {DOMAIN output[w].results : w \in 1..k} |->
        [min |-> CHOOSE m \in {output[w].results[st].min : w \in Holders(st, k)} :
                     \A w \in Holders(st, k) : m <= output[w].results[st].min,
         sum |-> SumInOrder(st, k),
         count |-> CountOver(st, Holders(st, k)),
         max |-> CHOOSE m \in {output[w].results[st].max : w \in Holders(st, k)} :
                     \A w \in Holders(st, k) : m >= output[w].results[st].max]]

\* C4: the accumulator of the fold is determined by the outcomes of the
\* workers joined so far, taken in chunk order: the fragments are joined in
\* ascending chunk-start order, whatever the order the threads ran and
\* finished in.
SchedulingIndependence ==
    mainPc \in {"join", "reconcile"} =>
        /\ acc.unconsumed = LeftoversInOrder(joined)
        /\ acc.results = TableInOrder(joined)

\* C4 happens: a later chunk's thread finished before an earlier one's, both
\* left a fragment, and the fold is complete.
SchedulingIndependenceWitness ==
    /\ mainPc = "reconcile"
    /\ cpu_count >= 2
    /\ trace[2].overtaken
    /\ output[1].unconsumed # <<>>
    /\ output[2].unconsumed # <<>>
    /\ output[1].results # EmptyResults

\* C6: once a worker has failed nothing is ever written, and whatever is
\* written was written after every worker returned.
NoPartialOutput ==
    /\ (\E w \in Workers : wpc[w] = "panicked") => stdout = <<>>
    /\ stdout # <<>> => \A w \in Workers : wpc[w] = "done"

\* C6 happens: main has merged the first worker's outcome and met the failure
\* of the second one.
NoPartialOutputWitness ==
    /\ mainPc = "panic_join"
    /\ joined = 1
    /\ acc.results # EmptyResults
    /\ wpc[2] = "panicked"

\* a is before b in the order of the raw bytes.
BytesBefore(a, b) ==
    \E k \in 1..(Min(Len(a), Len(b)) + 1) :
        /\ \A n \in 1..(k - 1) : a[n] = b[n]
        /\ \/ (k > Len(a) /\ k <= Len(b))
           \/ (k <= Len(a) /\ k <= Len(b) /\ a[k] < b[k])

\* The orders of the set S: the sequences that list each element once.
OrdersOf(S) ==
    {o \in [1..Cardinality(S) -> S] : \A a, b \in 1..Cardinality(S) : a # b => o[a] # o[b]}

RECURSIVE Summary(_, _)
\* The entries of the stations order[1..n], separated by ", ".
Summary(order, n) ==
    IF n = 0 THEN <<>>
    ELSE (IF n = 1 THEN <<>> ELSE Summary(order, n - 1) \o <<COMMA, SPACE>>)
         \o Entry(<<order[n], acc.results[order[n]]>>)

\* C8: the summary is "{", the entries of all the stations of the final
\* table once each in strictly ascending byte order with ", " between them,
\* and "}".
OutputOrdering ==
    mainPc = "done" =>
        \E order \in OrdersOf(DOMAIN acc.results) :
            /\ \A a, b \in DOMAIN order : a < b => BytesBefore(order[a], order[b])
            /\ stdout = <<LBRACE>> \o Summary(order, Len(order)) \o <<RBRACE>>

\* C8 happens: a summary of two stations has been written.
OutputOrderingWitness ==
    /\ mainPc = "done"
    /\ Cardinality(DOMAIN acc.results) >= 2

\* The bytes of worker w's range, and the index in them of the first newline
\* (the length of the range when it has none).
RangeBytes(w) == Slice(file, chunk_start(w), chunk_end(w))
FirstNewline(w) == FindByte(RangeBytes(w), 0, NL)

\* C11: a worker whose range does not start the file and holds a newline
\* comes to its first parse having copied the bytes of the range up to and
\* including the first newline as its leading fragment, and parses from the
\* byte right after it, whatever the sizes of the reads.
LeadingFragmentExtraction ==
    \A w \in Workers :
        (wpc[w] = "loop" /\ trace[w].begin # <<>> /\ chunk_start(w) # 0
                        /\ FirstNewline(w) < Len(RangeBytes(w))) =>
            /\ local[w].unconsumed = Slice(RangeBytes(w), 0, FirstNewline(w) + 1)
            /\ trace[w].copied = Offsets(chunk_start(w), chunk_start(w) + FirstNewline(w) + 1)
            /\ trace[w].begin = <<chunk_start(w) + FirstNewline(w) + 1>>

\* 0 <= pos <= filled <= initialized <= capacity
CursorsInOrder(b) ==
    /\ 0 <= b.pos
    /\ b.pos <= b.filled
    /\ b.filled <= b.initialized
    /\ b.initialized <= Len(b.buf)

\* C12: after every sequence of fill_buf, read_more, consume and backshift
\* calls the cursors of the Buffer are in order, within the capacity.
BufferCursorInvariant == CursorsInOrder(alone.buf)

\* C12 happens: all four calls have been made, and the cursors are strictly
\* apart.
BufferCursorWitness ==
    /\ alone.seen = {"fill_buf", "read_more", "consume", "backshift"}
    /\ 0 < alone.buf.pos
    /\ alone.buf.pos < alone.buf.filled
    /\ alone.buf.filled < alone.buf.initialized

\* C13: read_more leaves pos and every byte below the old filled as they were,
\* writes at the offsets from the old filled on only, advances filled by the
\* count it returns, and what it appends is the reader's next bytes in order.
FillWithoutDiscard ==
    alone.op = "read_more" =>
        /\ alone.buf.pos = alone.before.pos
        /\ \A k \in 1..alone.before.filled : alone.buf.buf[k] = alone.before.buf[k]
        /\ \A k \in (alone.before.filled + alone.ret + 1)..Len(alone.buf.buf) :
              alone.buf.buf[k] = alone.before.buf[k]
        /\ alone.buf.filled = alone.before.filled + alone.ret
        /\ Slice(alone.buf.buf, alone.before.filled, alone.buf.filled)
              = FileBytes(alone.fpos - alone.ret, alone.ret)

\* C13 happens: read_more appended bytes behind unread bytes that do not start
\* the buffer.
FillWithoutDiscardWitness ==
    /\ alone.op = "read_more"
    /\ alone.ret > 0
    /\ 0 < alone.before.pos
    /\ alone.before.pos < alone.before.filled

\* C14: backshift leaves pos at 0 and filled at the old filled - pos, the bytes
\* buffer() returns are the ones it returned before, and a second backshift
\* changes nothing.
CompactPreservesView ==
    alone.op = "backshift" =>
        /\ alone.buf.pos = 0
        /\ alone.buf.filled = alone.before.filled - alone.before.pos
        /\ buffer(alone.buf) = buffer(alone.before)
        /\ backshift(alone.buf) = alone.buf

\* C14 happens: backshift moved two unread bytes down by one, onto themselves.
CompactPreservesViewWitness ==
    /\ alone.op = "backshift"
    /\ alone.before.pos = 1
    /\ alone.before.filled = 3

\* C20 as stated: no call lowers filled or initialized, and pos moves in
\* consume and backshift only.
MonotoneCursors ==
    alone.op # "with_capacity" =>
        /\ alone.buf.filled >= alone.before.filled
        /\ alone.buf.initialized >= alone.before.initialized
        /\ alone.buf.pos # alone.before.pos => alone.op \in {"consume", "backshift"}

\* C20 as amended: initialized never decreases.  filled grows by the bytes
\* read in read_more, is left alone by consume, drops by pos in backshift and
\* becomes the length of the read in a fill_buf that reads.  pos is left alone
\* by read_more, advances (up to filled) in consume, and returns to 0 in
\* backshift and in a fill_buf that reads; a fill_buf that finds unread bytes
\* changes nothing.
CursorMovement ==
    /\ alone.buf.initialized >= alone.before.initialized
    /\ alone.op = "read_more" =>
          /\ alone.buf.filled = alone.before.filled + alone.ret
          /\ alone.buf.pos = alone.before.pos
    /\ alone.op = "consume" =>
          /\ alone.buf.filled = alone.before.filled
          /\ alone.buf.pos = Min(alone.before.pos + alone.ret, alone.before.filled)
    /\ alone.op = "backshift" =>
          /\ alone.buf.filled = alone.before.filled - alone.before.pos
          /\ alone.buf.pos = 0
    /\ alone.op = "fill_buf" =>
          IF alone.before.pos >= alone.before.filled
          THEN alone.buf.pos = 0 /\ alone.buf.filled = alone.ret
          ELSE alone.buf = alone.before

\* C20 happens: a fill_buf that reads took fewer bytes than the buffer held
\* before, so filled dropped, pos returned to 0 and initialized stayed above.
CursorMovementWitness ==
    /\ alone.op = "fill_buf"
    /\ alone.before.pos = alone.before.filled
    /\ alone.before.pos > 0
    /\ alone.buf.filled < alone.before.filled
    /\ alone.buf.filled > 0
    /\ alone.buf.initialized > alone.buf.filled

\* C15 as stated: once a merge step has been made no worker is running.
MergeAfterAllWorkers ==
    joined >= 1 => \A w \in Workers : ~Running(w)

\* C15 as amended: the fold merges the outcome of a handle once that handle
\* is joined, in spawn order, so every merged outcome is of a thread that has
\* returned, while threads spawned later may still run; the reconciliation
\* pass and the output come after every worker has returned.
MergeOfJoinedOnly ==
    /\ \A w \in 1..joined : wpc[w] = "done"
    /\ mainPc \in {"reconcile", "panic_parse", "panic_assert", "panic_index",
                    "write", "entries", "done"} =>
          \A w \in Workers : wpc[w] = "done"

\* C15 happens: the first worker's table has been merged while the second
\* worker is still running.
MergeOfJoinedOnlyWitness ==
    /\ mainPc = "join"
    /\ joined = 1
    /\ cpu_count = 2
    /\ acc.results # EmptyResults
    /\ Running(2)

\* An aggregate that some observation went into: a count of at least 1 and
\* finite bounds in order.
ValidResult(r) ==
    /\ r.count >= 1
    /\ r.min <= r.max
    /\ r.min # INFINITY
    /\ r.max # NEG_INFINITY

ValidTable(t) == \A k \in DOMAIN t : ValidResult(t[k])

\* C16: every key of every table (a worker's while it parses, the one it
\* returns, the accumulator of the fold and of the reconciliation, the sorted
\* entries) has a valid aggregate, and no "inf" is written.
AggregateValidity ==
    /\ \A w \in Workers : ValidTable(local[w].results) /\ ValidTable(output[w].results)
    /\ ValidTable(acc.results)
    /\ \A n \in 1..Len(results) : ValidResult(results[n][2])
    /\ \A n \in 1..Len(stdout) : stdout[n] # 105

\* C16 happens: a station's aggregate has been merged from the tables of two
\* workers and from the reconciliation, with different values, and written.
AggregateValidityWitness ==
    /\ mainPc = "done"
    /\ cpu_count = 2
    /\ acc.unconsumed # <<>>
    /\ \E k \in DOMAIN output[1].results :
          /\ k \in DOMAIN output[2].results
          /\ acc.results[k].count = 3
          /\ acc.results[k].min < acc.results[k].max

\* C17: in the end every spawned worker has left its refill loop and ended
\* (it returned, or an I/O failure made it panic), and the fold of main is
\* over: all handles are joined, or the join of a panicked worker ended main.
WorkerTermination ==
    <>[](/\ mainPc \notin {"start", "join"}
         /\ \A w \in Workers : ~Running(w))

\* C17 happens: a worker whose range is longer than its buffer left the refill
\* loop with the range read to its end, and the fold is complete.
WorkerTerminationWitness ==
    /\ mainPc = "reconcile"
    /\ \E w \in Workers :
          /\ chunk_end(w) - chunk_start(w) > BufCapacity
          /\ trace[w].exit = "refill"
          /\ trace[w].unread = 0

\* C18: on a well-formed file, the empty one included, the slice bound
\* results.len() - 1 and results.last() are valid (the table is not empty when
\* the output stage runs), and a run that ends has written "{" first and "}"
\* last.
OutputNeverFails ==
    /\ mainPc # "panic_index"
    /\ mainPc = "entries" => Len(results) >= 1
    /\ stdout # <<>> => stdout[1] = LBRACE
    /\ mainPc = "done" => stdout[Len(stdout)] = RBRACE

\* The f32 nearest to tenths / 10 (tenths >= 0), computed in one rounding.
NearestF32(tenths) ==
    LET q == (tenths \div 10) * F32_ONE + ((tenths % 10) * F32_ONE) \div 10
        u == UlpOf(q, 1)
    IN  u * RoundToEven(tenths * ((F32_ONE \div 2) \div u), 5, 1)

\* The number of tenths nearest to the f32 m.
NearestTenth(m) ==
    LET a == Abs(m)
        t == 10 * (a \div F32_ONE) + RoundToEven((a % F32_ONE) * 10, F32_ONE, 1)
    IN  IF m < 0 THEN 0 - t ELSE t

====
